---- MODULE Spec2Model ----
(***************************************************************************)
(* A model of the stringextn library: stateless string utilities.          *)
(*                                                                         *)
(* A string is a sequence of characters.  An ASCII character is the        *)
(* one-character string that spells it ("a", "<", "\n"); a character       *)
(* outside ASCII is the token "U+XXXX" of its code point.                  *)
(*                                                                         *)
(* The library keeps no state between calls, so the state of the model is  *)
(* one call: which function, its arguments, whether it has run (pc), what  *)
(* it returned or raised, and what it did on the way (the matches handed   *)
(* to the replacement callback, the items taken from the iterable).        *)
(*                                                                         *)
(* heap holds the objects that calls can share: the module-level compiled  *)
(* EMOJI_PATTERN and, when calls run in threads, the mutable objects they  *)
(* are given (a dict, a one-shot iterator).                                *)
(***************************************************************************)
EXTENDS Integers, Sequences, FiniteSets, TLC

VARIABLES pc, call, args, result, trace, heap

vars == <<pc, call, args, result, trace, heap>>

(***************************************************************************)
(* Bounds of the input sets.                                               *)
(***************************************************************************)
MaxPhoneLen == 5
MaxEmailLen == 4
MaxHayLen == 3
MaxNeedleLen == 2
MaxItems == 2
MaxFuzzyLen == 3
MaxTextLen == 3
MaxMapLen == 2
MaxPieces == 3
MaxCaseLen == 4
MaxTagLen == 5

(***************************************************************************)
(* Generic helpers.                                                        *)
(***************************************************************************)
\* All sequences over S of length at most n.
SeqsUpTo(S, n) == UNION {[1..k -> S] : k \in 0..n}

Range(f) == {f[x] : x \in DOMAIN f}

Min(x, y) == IF x < y THEN x ELSE y

Max(x, y) == IF x > y THEN x ELSE y

\* What a call hands back: a value, or an exception and no value.
Return(v) == [exc |-> "None", val |-> v]

Raise(e) == [exc |-> e, val |-> <<>>]

(***************************************************************************)
(* Python built-ins the library relies on.                                 *)
(***************************************************************************)
\* c * n for a one-character string c: a count below one gives ''.
RECURSIVE str_mul(_, _)
str_mul(c, n) == IF n <= 0 THEN <<>> ELSE <<c>> \o str_mul(c, n - 1)

\* s[start:] with Python's slice clamping; start may be negative.
str_slice_from(s, start) ==
    LET n == Len(s)
        lo == IF start < 0 THEN Max(n + start, 0) ELSE Min(start, n)
    IN SubSeq(s, lo + 1, n)

\* s.split(sep) for a one-character separator: always at least one part.
RECURSIVE str_split(_, _, _, _)
str_split(s, sep, i, cur) ==
    IF i > Len(s) THEN <<cur>>
    ELSE IF s[i] = sep THEN <<cur>> \o str_split(s, sep, i + 1, <<>>)
    ELSE str_split(s, sep, i + 1, Append(cur, s[i]))

\* Does s carry sub at 0-based offset p ?
StartsAt(s, sub, p) ==
    /\ p >= 0
    /\ p + Len(sub) <= Len(s)
    /\ \A k \in 1..Len(sub) : s[p + k] = sub[k]

\* sub in s: scan the offsets of s from the left for an occurrence.
RECURSIVE str_find(_, _, _)
str_find(s, sub, p) ==
    IF p + Len(sub) > Len(s) THEN -1
    ELSE IF StartsAt(s, sub, p) THEN p
    ELSE str_find(s, sub, p + 1)

str_in(sub, s) == str_find(s, sub, 0) # -1

(***************************************************************************)
(* security.py                                                             *)
(***************************************************************************)
mask_email_maxsplit(email) ==
    LET at == str_find(email, <<"@">>, 0)
    IN IF at = -1 THEN Raise("ValueError")
       ELSE IF at = 0 THEN Raise("IndexError")
       ELSE Return(<<email[1]>> \o <<"*", "*", "*", "@">>
                       \o SubSeq(email, at + 2, Len(email)))

mask_email_stars(email) ==
    LET parts == str_split(email, "@", 1, <<>>)
    IN IF Len(parts) # 2 THEN Raise("ValueError")
       ELSE IF Len(parts[1]) = 0 THEN Raise("IndexError")
       ELSE Return(<<parts[1][1]>> \o str_mul("*", Len(parts[1]) - 1)
                       \o <<"@">> \o parts[2])

\* name, domain = email.split("@"); return name[0] + "***@" + domain
mask_email(email) ==
    LET parts == str_split(email, "@", 1, <<>>)
    IN IF Len(parts) # 2 THEN Raise("ValueError")
       ELSE IF Len(parts[1]) = 0 THEN Raise("IndexError")
       ELSE Return(<<parts[1][1]>> \o <<"*", "*", "*", "@">> \o parts[2])

mask_phone_abs(phone) ==
    LET d == Len(phone) - 4
    IN Return(str_mul("*", IF d < 0 THEN -d ELSE d)
                  \o str_slice_from(phone, -4))

\* return "*" * (len(phone) - 4) + phone[-4:]
mask_phone(phone) ==
    Return(str_mul("*", Len(phone) - 4) \o str_slice_from(phone, -4))

(***************************************************************************)
(* contains.py                                                             *)
(***************************************************************************)
\* any(i in s for i in items): items are taken one at a time, and none is
\* taken after the first hit.  taken counts the items consumed.
RECURSIVE any_in(_, _, _)
any_in(s, items, n) ==
    IF n > Len(items) THEN [val |-> FALSE, taken |-> Len(items)]
    ELSE IF str_in(items[n], s) THEN [val |-> TRUE, taken |-> n]
    ELSE any_in(s, items, n + 1)

\* all(i in s for i in items): none is taken after the first miss.
RECURSIVE all_in(_, _, _)
all_in(s, items, n) ==
    IF n > Len(items) THEN [val |-> TRUE, taken |-> Len(items)]
    ELSE IF ~str_in(items[n], s) THEN [val |-> FALSE, taken |-> n]
    ELSE all_in(s, items, n + 1)

contains_any_prefix(s, items) ==
    LET r == [val |-> \E n \in 1..Len(items) : StartsAt(s, items[n], 0),
              taken |-> Len(items)]
    IN r

contains_any(s, items) == any_in(s, items, 1)

contains_all_eager(s, items) ==
    [val |-> \A n \in 1..Len(items) : str_in(items[n], s), taken |-> Len(items)]

contains_all(s, items) == all_in(s, items, 1)

(***************************************************************************)
(* fuzzy.py: SequenceMatcher(None, a, b).ratio(), rounded to 3 decimals.   *)
(* Offsets into a and b are 0-based, as in the library.                    *)
(***************************************************************************)
\* __chain_b: with no junk function and autojunk on, an element of a b of
\* 200 or more elements that occurs more than len(b) // 100 + 1 times is
\* "popular" and is left out of the index b2j.
Popular(b, elt) ==
    /\ Len(b) >= 200
    /\ Cardinality({j \in 1..Len(b) : b[j] = elt}) > (Len(b) \div 100) + 1

\* b2j.get(elt, nothing): the offsets of b that hold elt.
B2J(b, elt) ==
    IF Popular(b, elt) THEN {} ELSE {j \in 0..(Len(b) - 1) : b[j + 1] = elt}

\* The inner loop of find_longest_match for one i: j runs up the offsets of
\* a[i] in b that lie in [blo, bhi); k is the length of the match ending at
\* a[i], b[j]; only a strictly longer match replaces the best.
RECURSIVE flm_row(_, _, _, _, _, _, _, _)
flm_row(a, b, i, j, bhi, j2len, newj2len, best) ==
    IF j >= bhi THEN [j2len |-> newj2len, best |-> best]
    ELSE IF j \notin B2J(b, a[i + 1])
         THEN flm_row(a, b, i, j + 1, bhi, j2len, newj2len, best)
    ELSE LET k == j2len[j - 1] + 1
             nb == IF k > best[3] THEN <<i - k + 1, j - k + 1, k>> ELSE best
         IN flm_row(a, b, i, j + 1, bhi, j2len,
                    [newj2len EXCEPT ![j] = k], nb)

\* The outer loop: i runs over [alo, ahi); j2len is replaced by the row's.
RECURSIVE flm_rows(_, _, _, _, _, _, _, _)
flm_rows(a, b, i, ahi, blo, bhi, j2len, best) ==
    IF i >= ahi THEN best
    ELSE LET empty == [j \in -1..(Len(b) - 1) |-> 0]
             row == flm_row(a, b, i, blo, bhi, j2len, empty, best)
         IN flm_rows(a, b, i + 1, ahi, blo, bhi, row.j2len, row.best)

\* while besti > alo and bestj > blo and a[besti-1] == b[bestj-1]
RECURSIVE flm_extend_left(_, _, _, _, _)
flm_extend_left(a, b, alo, blo, m) ==
    IF m[1] > alo /\ m[2] > blo /\ a[m[1]] = b[m[2]]
    THEN flm_extend_left(a, b, alo, blo, <<m[1] - 1, m[2] - 1, m[3] + 1>>)
    ELSE m

\* while besti+bestsize < ahi and bestj+bestsize < bhi and
\*       a[besti+bestsize] == b[bestj+bestsize]
RECURSIVE flm_extend_right(_, _, _, _, _)
flm_extend_right(a, b, ahi, bhi, m) ==
    IF m[1] + m[3] < ahi /\ m[2] + m[3] < bhi
           /\ a[m[1] + m[3] + 1] = b[m[2] + m[3] + 1]
    THEN flm_extend_right(a, b, ahi, bhi, <<m[1], m[2], m[3] + 1>>)
    ELSE m

\* find_longest_match: <<i, j, k>> with a[i:i+k] == b[j:j+k].  bjunk is
\* empty, so the two loops that extend over junk never run.
find_longest_match(a, b, alo, ahi, blo, bhi) ==
    LET empty == [j \in -1..(Len(b) - 1) |-> 0]
        best == flm_rows(a, b, alo, ahi, blo, bhi, empty, <<alo, blo, 0>>)
    IN flm_extend_right(a, b, ahi, bhi,
                        flm_extend_left(a, b, alo, blo, best))

\* get_matching_blocks: the longest match of the region, then the regions
\* to its left and to its right, as long as both sides are non-empty.  The
\* blocks come out sorted; merging adjacent ones leaves their sizes' sum.
RECURSIVE matching_blocks(_, _, _, _, _, _)
matching_blocks(a, b, alo, ahi, blo, bhi) ==
    LET x == find_longest_match(a, b, alo, ahi, blo, bhi)
        i == x[1]
        j == x[2]
        k == x[3]
    IN IF k = 0 THEN <<>>
       ELSE (IF alo < i /\ blo < j
             THEN matching_blocks(a, b, alo, i, blo, j) ELSE <<>>)
            \o <<x>>
            \o (IF i + k < ahi /\ j + k < bhi
                THEN matching_blocks(a, b, i + k, ahi, j + k, bhi) ELSE <<>>)

get_matching_blocks(a, b) == matching_blocks(a, b, 0, Len(a), 0, Len(b))

RECURSIVE SumSizes(_)
SumSizes(blocks) ==
    IF blocks = <<>> THEN 0 ELSE blocks[1][3] + SumSizes(Tail(blocks))

\* round(num / den, 3) in thousandths, a tie going to the even neighbour.
\* (A tie needs den to be a multiple of 16; the double nearest num / den is
\* then exact, and otherwise lies on the same side of the tie as num / den.)
Round3(num, den) ==
    LET q == (1000 * num) \div den
        r == (1000 * num) % den
    IN IF 2 * r > den \/ (2 * r = den /\ q % 2 = 1) THEN q + 1 ELSE q

calculate_ratio_zero(matches, length) ==
    IF length # 0 THEN Round3(2 * matches, length) ELSE 0

\* _calculate_ratio, then round(_, 3): the result in thousandths.
calculate_ratio(matches, length) ==
    IF length # 0 THEN Round3(2 * matches, length) ELSE 1000

\* return round(SequenceMatcher(None, a, b).ratio(), 3)
similarity(a, b) ==
    calculate_ratio(SumSizes(get_matching_blocks(a, b)), Len(a) + Len(b))

(***************************************************************************)
(* replace.py.  A mapping is a dict: the sequence, in iteration order, of  *)
(* its <<key, value>> pairs, the keys distinct.                            *)
(***************************************************************************)
\* mapping.keys()
dict_keys(mapping) == [n \in 1..Len(mapping) |-> mapping[n][1]]

\* mapping[key]: the value, or KeyError when the key is absent.
dict_getitem(mapping, key) ==
    IF \E n \in 1..Len(mapping) : mapping[n][1] = key
    THEN Return(mapping[CHOOSE n \in 1..Len(mapping) : mapping[n][1] = key][2])
    ELSE Raise("KeyError")

pattern_alternatives_none(mapping) == dict_keys(mapping)

pattern_alternatives_trailing(mapping) == Append(dict_keys(mapping), <<>>)

pattern_alternatives_first(mapping) ==
    IF Len(mapping) = 0 THEN <<<<>>>> ELSE <<mapping[1][1]>>

\* re.compile("|".join(map(re.escape, mapping.keys()))): the alternatives of
\* the pattern, each a literal.  Joining no key at all gives the pattern '',
\* whose one alternative is the empty string.
pattern_alternatives(mapping) ==
    IF Len(mapping) = 0 THEN <<<<>>>> ELSE dict_keys(mapping)

\* The alternatives are tried in order at offset p; the first that matches
\* wins.  After an empty match the engine may not match empty again at the
\* same offset (mustAdvance).  0 when no alternative matches.
RECURSIVE alternative_at(_, _, _, _, _)
alternative_at(s, alts, p, mustAdvance, n) ==
    IF n > Len(alts) THEN 0
    ELSE IF StartsAt(s, alts[n], p) /\ ~(mustAdvance /\ Len(alts[n]) = 0)
         THEN n
    ELSE alternative_at(s, alts, p, mustAdvance, n + 1)

\* The search for the next match from offset start: the leftmost offset,
\* the end of s included, at which an alternative matches; -1 when none.
RECURSIVE pattern_search(_, _, _, _, _)
pattern_search(s, alts, start, p, mustAdvance) ==
    IF p > Len(s) THEN -1
    ELSE IF alternative_at(s, alts, p, mustAdvance /\ p = start, 1) # 0 THEN p
    ELSE pattern_search(s, alts, start, p + 1, mustAdvance)

\* pattern.sub(lambda m: mapping[m.group(0)], s): for each match, the text
\* of s since the previous match is copied, then what the callback gives
\* for the match; the search resumes where the match ended.  An exception
\* of the callback ends the call.  matches lists the <<m.start(), m.group(0)>>
\* handed to the callback; i is the offset up to which s has been copied.
RECURSIVE pattern_sub(_, _, _, _, _, _, _)
pattern_sub(s, alts, mapping, start, mustAdvance, out, matches) ==
    LET p == pattern_search(s, alts, start, start, mustAdvance)
    IN IF p = -1
       THEN [res |-> Return(out \o SubSeq(s, start + 1, Len(s))),
             matches |-> matches]
       ELSE LET n == alternative_at(s, alts, p, mustAdvance /\ p = start, 1)
                key == alts[n]
                e == p + Len(key)
                repl == dict_getitem(mapping, key)
                seen == Append(matches, <<p, key>>)
            IN IF repl.exc # "None"
               THEN [res |-> repl, matches |-> seen]
               ELSE pattern_sub(s, alts, mapping, e, e = p,
                                out \o SubSeq(s, start + 1, p) \o repl.val,
                                seen)

multi_replace_twice(s, mapping) ==
    LET alts == pattern_alternatives(mapping)
        once == pattern_sub(s, alts, mapping, 0, FALSE, <<>>, <<>>)
    IN IF once.res.exc # "None" THEN once
       ELSE [res |-> pattern_sub(once.res.val, alts, mapping, 0, FALSE,
                                 <<>>, <<>>).res,
             matches |-> once.matches]

\* return pattern.sub(lambda m: mapping[m.group(0)], s)
multi_replace(s, mapping) ==
    pattern_sub(s, pattern_alternatives(mapping), mapping, 0, FALSE,
                <<>>, <<>>)

(***************************************************************************)
(* Character classes and case mapping.                                     *)
(***************************************************************************)
UpperLetters ==
    <<"A", "B", "C", "D", "E", "F", "G", "H", "I", "J", "K", "L", "M",
      "N", "O", "P", "Q", "R", "S", "T", "U", "V", "W", "X", "Y", "Z">>

LowerLetters ==
    <<"a", "b", "c", "d", "e", "f", "g", "h", "i", "j", "k", "l", "m",
      "n", "o", "p", "q", "r", "s", "t", "u", "v", "w", "x", "y", "z">>

Digits == <<"0", "1", "2", "3", "4", "5", "6", "7", "8", "9">>

IndexOf(seq, c) == CHOOSE n \in 1..Len(seq) : seq[n] = c

\* str.lower() of one character: an ASCII capital gives its small letter.
\* (The characters outside ASCII that reach lower() in this model, combining
\* marks, have no case.)
char_lower(c) ==
    IF c \in Range(UpperLetters) THEN LowerLetters[IndexOf(UpperLetters, c)]
    ELSE c

str_lower(s) == [n \in 1..Len(s) |-> char_lower(s[n])]

\* ord(c) for the characters outside ASCII that the inputs use; any other
\* character of the model is ASCII, and what matters of its code point is
\* that it lies below 128.
CodePoint(c) ==
    CASE c = "U+00A0" -> 160
      [] c = "U+00E9" -> 233
      [] c = "U+0301" -> 769
      [] c = "U+1F600" -> 128512
      [] OTHER -> 0

\* chr(num) for the code points that the numeric references of the inputs
\* name.
Chr(num) ==
    CASE num = 38 -> "&"
      [] num = 60 -> "<"
      [] num = 62 -> ">"

\* str.isspace(), which is also the \s of a str pattern.
IsSpace(c) == c \in {" ", "\t", "\n", "\r", "\f", "U+00A0"}

\* The character classes of the patterns and of strip(), by their spelling.
InClass(cls, c) ==
    CASE cls = "[0-9]" -> c \in Range(Digits)
      [] cls = "[^\\t\\n\\f <&#;]" ->
             c \notin {"\t", "\n", "\f", " ", "<", "&", "#", ";"}
      [] cls = "\\s" -> IsSpace(c)
      [] cls = "[^a-z0-9]" ->
             c \notin (Range(LowerLetters) \cup Range(Digits))
      [] cls = "-" -> c = "-"
      [] cls = "[A-Z]" -> c \in Range(UpperLetters)
      [] cls = "[a-z]" -> c \in Range(LowerLetters)
      [] cls = "[a-z0-9]" -> c \in (Range(LowerLetters) \cup Range(Digits))
      [] cls = "[_\\-\\s]" -> c \in {"_", "-"} \/ IsSpace(c)

(***************************************************************************)
(* clean.py                                                                *)
(***************************************************************************)
\* html.entities.html5, the names the inputs can spell.
Html5 ==
    (<<"l", "t", ";">> :> <<"<">>) @@ (<<"l", "t">> :> <<"<">>)
    @@ (<<"g", "t", ";">> :> <<">">>) @@ (<<"g", "t">> :> <<">">>)
    @@ (<<"a", "m", "p", ";">> :> <<"&">>) @@ (<<"a", "m", "p">> :> <<"&">>)

\* The end (1-based, inclusive) of the longest run of characters of s from
\* position i on that are of the class, at most max of them; i - 1 when
\* the run is empty.
RECURSIVE RunEnd(_, _, _, _)
RunEnd(s, i, max, cls) ==
    IF max > 0 /\ i <= Len(s) /\ InClass(cls, s[i])
    THEN RunEnd(s, i + 1, max - 1, cls)
    ELSE i - 1

\* group(1) of the pattern &(#[0-9]+;?|#[xX][0-9a-fA-F]+;?|[^\t\n\f <&#;]{1,32};?)
\* matched at an '&' whose next position is j; <<>> when it does not match.
\* (No input of the model spells the hexadecimal form.)
charref_group(s, j) ==
    LET WithSemi(e) == IF e + 1 <= Len(s) /\ s[e + 1] = ";" THEN e + 1 ELSE e
    IN IF j > Len(s) THEN <<>>
       ELSE IF s[j] = "#"
            THEN LET e == RunEnd(s, j + 1, Len(s), "[0-9]")
                 IN IF e < j + 1 THEN <<>> ELSE SubSeq(s, j, WithSemi(e))
       ELSE LET e == RunEnd(s, j, 32, "[^\\t\\n\\f <&#;]")
            IN IF e < j THEN <<>> ELSE SubSeq(s, j, WithSemi(e))

\* int(digits)
RECURSIVE int_of(_, _)
int_of(digits, acc) ==
    IF digits = <<>> THEN acc
    ELSE int_of(Tail(digits), 10 * acc + (IndexOf(Digits, digits[1]) - 1))

\* The longest proper prefix g[:x], len(g) > x > 1, that is an html5 name.
RECURSIVE longest_name(_, _)
longest_name(g, x) ==
    IF x <= 1 THEN 0
    ELSE IF SubSeq(g, 1, x) \in DOMAIN Html5 THEN x
    ELSE longest_name(g, x - 1)

\* _replace_charref: what a matched reference is replaced by.  (The numeric
\* references of the inputs name valid characters.)
replace_charref(g) ==
    IF g[1] = "#"
    THEN LET digits == SelectSeq(Tail(g), LAMBDA c : c # ";")
         IN <<Chr(int_of(digits, 0))>>
    ELSE IF g \in DOMAIN Html5 THEN Html5[g]
    ELSE LET x == longest_name(g, Len(g) - 1)
         IN IF x # 0 THEN Html5[SubSeq(g, 1, x)] \o SubSeq(g, x + 1, Len(g))
            ELSE <<"&">> \o g

RECURSIVE charref_sub(_, _)
charref_sub(s, i) ==
    IF i > Len(s) THEN <<>>
    ELSE IF s[i] # "&" THEN <<s[i]>> \o charref_sub(s, i + 1)
    ELSE LET g == charref_group(s, i + 1)
         IN IF g = <<>> THEN <<"&">> \o charref_sub(s, i + 1)
            ELSE replace_charref(g) \o charref_sub(s, i + 1 + Len(g))

\* html.unescape(s)
html_unescape(s) == IF "&" \notin Range(s) THEN s ELSE charref_sub(s, 1)

\* The position of the '>' that closes a tag opened just before position j:
\* the first '>' from j on, unless a newline, which '.' does not match,
\* comes first; 0 when there is none.
RECURSIVE tag_end(_, _)
tag_end(s, j) ==
    IF j > Len(s) THEN 0
    ELSE IF s[j] = ">" THEN j
    ELSE IF s[j] = "\n" THEN 0
    ELSE tag_end(s, j + 1)

\* re.sub(r'<.*?>', '', s)
RECURSIVE remove_html_from(_, _)
remove_html_from(s, i) ==
    IF i > Len(s) THEN <<>>
    ELSE IF s[i] = "<" /\ tag_end(s, i + 1) # 0
         THEN remove_html_from(s, tag_end(s, i + 1) + 1)
    ELSE <<s[i]>> \o remove_html_from(s, i + 1)

remove_html_once(s) ==
    LET opens == {i \in 1..Len(s) : s[i] = "<" /\ tag_end(s, i + 1) # 0}
    IN IF opens = {} THEN s
       ELSE LET i == CHOOSE x \in opens : \A y \in opens : x <= y
            IN SubSeq(s, 1, i - 1) \o SubSeq(s, tag_end(s, i + 1) + 1, Len(s))

remove_html(s) == remove_html_from(s, 1)

\* EMOJI_PATTERN: the four ranges of code points.
IsEmoji(c) ==
    LET cp == CodePoint(c)
    IN \/ cp \in 128512..128591
       \/ cp \in 127744..128511
       \/ cp \in 128640..128767
       \/ cp \in 127456..127487

\* The module-level EMOJI_PATTERN as an object: its ranges of code points.
EMOJI_PATTERN ==
    <<<<128512, 128591>>, <<127744, 128511>>, <<128640, 128767>>,
      <<127456, 127487>>>>

\* pattern.sub('', s) for a compiled pattern '[ranges]+'
emoji_sub(pattern, s) ==
    SelectSeq(s, LAMBDA c : ~ \E n \in 1..Len(pattern) :
                                CodePoint(c) \in pattern[n][1]..pattern[n][2])

\* EMOJI_PATTERN.sub('', s)
remove_emoji(s) == SelectSeq(s, LAMBDA c : ~IsEmoji(c))

\* The compatibility decomposition of one character.
char_nfkd(c) ==
    CASE c = "U+00E9" -> <<"e", "U+0301">>
      [] c = "U+00A0" -> <<" ">>
      [] OTHER -> <<c>>

\* unicodedata.normalize("NFKD", s).  (The inputs hold one kind of combining
\* mark, so the reordering of marks moves nothing.)
RECURSIVE normalize_unicode(_)
normalize_unicode(s) ==
    IF s = <<>> THEN <<>>
    ELSE char_nfkd(s[1]) \o normalize_unicode(Tail(s))

\* re.sub(pattern + '+', repl, s) for a pattern that is a character class:
\* each maximal run of characters of the class becomes repl.
RECURSIVE sub_runs(_, _, _, _)
sub_runs(s, i, cls, repl) ==
    IF i > Len(s) THEN <<>>
    ELSE IF InClass(cls, s[i])
         THEN repl \o sub_runs(s, RunEnd(s, i, Len(s), cls) + 1, cls, repl)
    ELSE <<s[i]>> \o sub_runs(s, i + 1, cls, repl)

\* s.strip(chars): the characters of the class go from both ends.
RECURSIVE str_strip(_, _)
str_strip(s, cls) ==
    IF s = <<>> THEN s
    ELSE IF InClass(cls, s[1]) THEN str_strip(Tail(s), cls)
    ELSE IF InClass(cls, s[Len(s)])
         THEN str_strip(SubSeq(s, 1, Len(s) - 1), cls)
    ELSE s

\* re.sub(r'\s+', ' ', s).strip()
normalize_spaces(s) == str_strip(sub_runs(s, 1, "\\s", <<" ">>), "\\s")

clean_text_tags_first(s) ==
    normalize_spaces(normalize_unicode(remove_emoji(html_unescape(remove_html(s)))))

\* clean_text: the five stages, each on the output of the one before.
clean_text(s) ==
    normalize_spaces(normalize_unicode(remove_emoji(remove_html(html_unescape(s)))))

(***************************************************************************)
(* slug.py                                                                 *)
(***************************************************************************)
slugify_nostrip(s) ==
    sub_runs(str_lower(clean_text(s)), 1, "[^a-z0-9]", <<"-">>)

slugify_strip_first(s) ==
    sub_runs(str_strip(str_lower(clean_text(s)), "-"), 1, "[^a-z0-9]", <<"-">>)

\* s = clean_text(s).lower(); s = re.sub(r'[^a-z0-9]+', '-', s);
\* return s.strip('-')
slugify(s) ==
    str_strip(sub_runs(str_lower(clean_text(s)), 1, "[^a-z0-9]", <<"-">>), "-")

(***************************************************************************)
(* cases.py                                                                *)
(***************************************************************************)
\* str.upper() of one character: an ASCII small letter gives its capital.
char_upper(c) ==
    IF c \in Range(LowerLetters) THEN UpperLetters[IndexOf(LowerLetters, c)]
    ELSE c

\* Is the character cased (str.islower() or str.isupper()) ?
IsCased(c) == c \in Range(LowerLetters) \cup Range(UpperLetters)

\* str.title(), from position i on: a cased character becomes a capital
\* when the character before it is not cased, and a small letter when it
\* is; a character without case is kept and ends the word.
RECURSIVE title_from(_, _, _)
title_from(s, i, previous_is_cased) ==
    IF i > Len(s) THEN <<>>
    ELSE IF IsCased(s[i])
         THEN <<IF previous_is_cased THEN char_lower(s[i]) ELSE char_upper(s[i])>>
              \o title_from(s, i + 1, TRUE)
    ELSE <<s[i]>> \o title_from(s, i + 1, FALSE)

str_title(s) == title_from(s, 1, FALSE)

\* re.split(pattern, s) for a pattern that is one character class: s is cut
\* at every character of the class, and two of them in a row leave an empty
\* part between them; always at least one part.
RECURSIVE re_split(_, _, _, _)
re_split(s, cls, i, cur) ==
    IF i > Len(s) THEN <<cur>>
    ELSE IF InClass(cls, s[i]) THEN <<cur>> \o re_split(s, cls, i + 1, <<>>)
    ELSE re_split(s, cls, i + 1, Append(cur, s[i]))

\* "".join(p.title() for p in parts)
RECURSIVE join_title(_)
join_title(parts) ==
    IF parts = <<>> THEN <<>>
    ELSE str_title(parts[1]) \o join_title(Tail(parts))

\* s.replace(old, new) for one-character old and new.
str_replace(s, old, new) == [n \in 1..Len(s) |-> IF s[n] = old THEN new ELSE s[n]]

\* re.sub(r'(.)([A-Z][a-z]+)', r'\1_\2', s), from position i on: any
\* character but a newline, then a capital, then the longest run of small
\* letters, at least one; the scan resumes after the match.
RECURSIVE sub_capitalized_word(_, _)
sub_capitalized_word(s, i) ==
    IF i > Len(s) THEN <<>>
    ELSE IF /\ i + 2 <= Len(s)
            /\ s[i] # "\n"
            /\ InClass("[A-Z]", s[i + 1])
            /\ InClass("[a-z]", s[i + 2])
         THEN LET e == RunEnd(s, i + 2, Len(s), "[a-z]")
              IN <<s[i], "_">> \o SubSeq(s, i + 1, e) \o sub_capitalized_word(s, e + 1)
    ELSE <<s[i]>> \o sub_capitalized_word(s, i + 1)

\* re.sub(r'([a-z0-9])([A-Z])', r'\1_\2', s), from position i on.
RECURSIVE sub_lower_then_capital(_, _)
sub_lower_then_capital(s, i) ==
    IF i > Len(s) THEN <<>>
    ELSE IF /\ i + 1 <= Len(s)
            /\ InClass("[a-z0-9]", s[i])
            /\ InClass("[A-Z]", s[i + 1])
         THEN <<s[i], "_", s[i + 1]>> \o sub_lower_then_capital(s, i + 2)
    ELSE <<s[i]>> \o sub_lower_then_capital(s, i + 1)

to_snake_second_only(s) ==
    str_lower(str_replace(sub_lower_then_capital(s, 1), " ", "_"))

to_snake_no_lower(s) ==
    str_replace(sub_lower_then_capital(sub_capitalized_word(s, 1), 1), " ", "_")

to_snake_keep_spaces(s) ==
    str_lower(sub_lower_then_capital(sub_capitalized_word(s, 1), 1))

\* The two substitutions, then s.replace(" ", "_").lower()
to_snake(s) ==
    str_lower(str_replace(sub_lower_then_capital(sub_capitalized_word(s, 1), 1),
                          " ", "_"))

to_camel_nonempty(s) ==
    LET parts == SelectSeq(re_split(s, "[_\\-\\s]", 1, <<>>), LAMBDA p : p # <<>>)
    IN IF parts = <<>> THEN <<>>
       ELSE str_lower(parts[1]) \o join_title(Tail(parts))

\* parts = re.split(r'[_\-\s]', s);
\* return parts[0].lower() + "".join(p.title() for p in parts[1:])
to_camel(s) ==
    LET parts == re_split(s, "[_\\-\\s]", 1, <<>>)
    IN str_lower(parts[1]) \o join_title(Tail(parts))

to_pascal_whitespace(s) == join_title(re_split(s, "\\s", 1, <<>>))

\* parts = re.split(r'[_\-\s]', s); return "".join(p.title() for p in parts)
to_pascal(s) == join_title(re_split(s, "[_\\-\\s]", 1, <<>>))

to_kebab_snake(s) == to_snake(s)

\* return to_snake(s).replace("_", "-")
to_kebab(s) == str_replace(to_snake(s), "_", "-")

(***************************************************************************)
(* Input sets.                                                             *)
(***************************************************************************)
PhoneChars == {"1", "2", "-"}

EmailChars == {"a", "b", "@", "."}

HayChars == {"a", "A"}

Phones == SeqsUpTo(PhoneChars, MaxPhoneLen)

Emails == SeqsUpTo(EmailChars, MaxEmailLen)

Haystacks == SeqsUpTo(HayChars, MaxHayLen)

Needles == SeqsUpTo(HayChars, MaxNeedleLen)

ItemLists == SeqsUpTo(Needles, MaxItems)

FuzzyChars == {"a", "b", "c"}

FuzzyStrings == SeqsUpTo(FuzzyChars, MaxFuzzyLen)

\* The pieces a text for cleaning is made of: characters of each kind the
\* stages tell apart, and character references, whole or cut short.
Pieces ==
    {<<"a">>, <<"B">>, <<"1">>, <<" ">>, <<"\n">>, <<"-">>, <<"<">>, <<">">>,
     <<"&", "l", "t", ";">>, <<"&", "g", "t", ";">>, <<"&", "a", "m", "p", ";">>,
     <<"&", "l", "t">>, <<"&", "#", "6", "0", ";">>,
     <<"U+00E9">>, <<"U+1F600">>, <<"U+00A0">>}

RECURSIVE Flatten(_)
Flatten(ps) == IF ps = <<>> THEN <<>> ELSE ps[1] \o Flatten(Tail(ps))

Markups == {Flatten(ps) : ps \in SeqsUpTo(Pieces, MaxPieces)}

\* Brackets in every arrangement: tags in a row, nested, unclosed, and
\* across a line break.
TagChars == {"<", ">", "a", "\n"}

TagTexts == SeqsUpTo(TagChars, MaxTagLen)

\* Letters of both cases, a digit, the three documented separators and two
\* more white-space characters.
CaseChars == {"a", "A", "1", "_", "-", " ", "\t", "\n"}

CaseStrings == SeqsUpTo(CaseChars, MaxCaseLen)

ReplaceChars == {"a", "b"}

Texts == SeqsUpTo(ReplaceChars, MaxTextLen)

\* Keys that overlap each other and the empty key; values that are empty,
\* that are keys and that hold keys.
ReplaceKeys == {<<>>, <<"a">>, <<"b">>, <<"a", "b">>, <<"b", "a">>}

ReplaceValues == {<<>>, <<"a">>, <<"b">>, <<"a", "b">>}

\* The dicts of at most MaxMapLen entries: no key comes twice.
Mappings ==
    {m \in SeqsUpTo(ReplaceKeys \X ReplaceValues, MaxMapLen) :
        \A x, y \in 1..Len(m) : m[x][1] = m[y][1] => x = y}

(***************************************************************************)
(* The state machine.  A behaviour is one call: the initial state holds    *)
(* the function called and its arguments, and the function's action runs   *)
(* it to its return or its exception.  No call reads anything but its own  *)
(* arguments, so a longer behaviour would repeat these steps.              *)
(***************************************************************************)
Called(f, a) ==
    /\ pc = "called"
    /\ call = f
    /\ args = a
    /\ result = Return(<<>>)
    /\ trace = <<>>
    /\ heap = [EMOJI_PATTERN |-> EMOJI_PATTERN]

Finish(r, t) ==
    /\ pc' = "done"
    /\ result' = r
    /\ trace' = t
    /\ UNCHANGED <<call, args, heap>>

Done(f) == pc = "done" /\ call = f

MaskEmail ==
    /\ pc = "called"
    /\ call = "mask_email"
    /\ Finish(mask_email(args[1]), <<>>)

MaskPhone ==
    /\ pc = "called"
    /\ call = "mask_phone"
    /\ Finish(mask_phone(args[1]), <<>>)

ContainsAny ==
    /\ pc = "called"
    /\ call = "contains_any"
    /\ LET r == contains_any(args[1], args[2])
       IN Finish(Return(r.val), SubSeq(args[2], 1, r.taken))

ContainsAll ==
    /\ pc = "called"
    /\ call = "contains_all"
    /\ LET r == contains_all(args[1], args[2])
       IN Finish(Return(r.val), SubSeq(args[2], 1, r.taken))

InitMask ==
    \/ \E email \in Emails : Called("mask_email", <<email>>)
    \/ \E phone \in Phones : Called("mask_phone", <<phone>>)

NextMask == MaskEmail \/ MaskPhone

SpecMask == InitMask /\ [][NextMask]_vars

InitContains ==
    \/ \E s \in Haystacks, items \in ItemLists : Called("contains_any", <<s, items>>)
    \/ \E s \in Haystacks, items \in ItemLists : Called("contains_all", <<s, items>>)

NextContains == ContainsAny \/ ContainsAll

SpecContains == InitContains /\ [][NextContains]_vars

Similarity ==
    /\ pc = "called"
    /\ call = "similarity"
    /\ Finish(Return(similarity(args[1], args[2])), <<>>)

Slugify ==
    /\ pc = "called"
    /\ call = "slugify"
    /\ Finish(Return(slugify(args[1])), <<>>)

InitSlug == \E s \in Markups : Called("slugify", <<s>>)

NextSlug == Slugify

SpecSlug == InitSlug /\ [][NextSlug]_vars

MultiReplace ==
    /\ pc = "called"
    /\ call = "multi_replace"
    /\ LET r == multi_replace(args[1], args[2])
       IN Finish(r.res, r.matches)

InitReplace == \E s \in Texts, mapping \in Mappings : Called("multi_replace", <<s, mapping>>)

NextReplace == MultiReplace

SpecReplace == InitReplace /\ [][NextReplace]_vars

ToSnake ==
    /\ pc = "called"
    /\ call = "to_snake"
    /\ Finish(Return(to_snake(args[1])), <<>>)

ToCamel ==
    /\ pc = "called"
    /\ call = "to_camel"
    /\ Finish(Return(to_camel(args[1])), <<>>)

ToPascal ==
    /\ pc = "called"
    /\ call = "to_pascal"
    /\ Finish(Return(to_pascal(args[1])), <<>>)

ToKebab ==
    /\ pc = "called"
    /\ call = "to_kebab"
    /\ Finish(Return(to_kebab(args[1])), <<>>)

InitCases ==
    \E f \in {"to_snake", "to_camel", "to_pascal", "to_kebab"}, s \in CaseStrings :
        Called(f, <<s>>)

NextCases == ToSnake \/ ToCamel \/ ToPascal \/ ToKebab

SpecCases == InitCases /\ [][NextCases]_vars

CleanText ==
    /\ pc = "called"
    /\ call = "clean_text"
    /\ Finish(Return(clean_text(args[1])), <<>>)

RemoveHtml ==
    /\ pc = "called"
    /\ call = "remove_html"
    /\ Finish(Return(remove_html(args[1])), <<>>)

InitClean ==
    \/ \E s \in Markups : Called("clean_text", <<s>>)
    \/ \E s \in Markups \cup TagTexts : Called("remove_html", <<s>>)

NextClean == CleanText \/ RemoveHtml

SpecClean == InitClean /\ [][NextClean]_vars

RemoveEmoji ==
    /\ pc = "called"
    /\ call = "remove_emoji"
    /\ Finish(Return(remove_emoji(args[1])), <<>>)

NormalizeUnicode ==
    /\ pc = "called"
    /\ call = "normalize_unicode"
    /\ Finish(Return(normalize_unicode(args[1])), <<>>)

NormalizeSpaces ==
    /\ pc = "called"
    /\ call = "normalize_spaces"
    /\ Finish(Return(normalize_spaces(args[1])), <<>>)

InitStages ==
    \E f \in {"remove_emoji", "normalize_unicode", "normalize_spaces"}, s \in Markups :
        Called(f, <<s>>)

InitFuzzy == \E a \in FuzzyStrings, b \in FuzzyStrings : Called("similarity", <<a, b>>)

NextFuzzy == Similarity

SpecFuzzy == InitFuzzy /\ [][NextFuzzy]_vars

\* The whole library: a call of any of its functions.
InitLibrary ==
    \/ InitMask
    \/ InitContains
    \/ InitFuzzy
    \/ InitSlug
    \/ InitReplace
    \/ InitCases
    \/ InitClean
    \/ InitStages

NextLibrary ==
    \/ MaskEmail
    \/ MaskPhone
    \/ ContainsAny
    \/ ContainsAll
    \/ Similarity
    \/ Slugify
    \/ MultiReplace
    \/ ToSnake
    \/ ToCamel
    \/ ToPascal
    \/ ToKebab
    \/ CleanText
    \/ RemoveHtml
    \/ RemoveEmoji
    \/ NormalizeUnicode
    \/ NormalizeSpaces

SpecLibrary == InitLibrary /\ [][NextLibrary]_vars

(***************************************************************************)
(* Calls in threads.  Each thread makes one call; pc, call, args, result   *)
(* and trace hold one value per thread, trace the locals of the call (the  *)
(* compiled pattern, the items taken).  A mutable argument is an object of *)
(* the heap, which the threads share: args names it (ref) and holds what   *)
(* it was when the call was made (val); a list is given by its value.  A   *)
(* step is what a call does between two switches of thread.                *)
(***************************************************************************)
Threads == {"t1", "t2"}

ThreadTexts == {<<>>, <<"a">>, <<"U+1F600", "b">>}

ThreadMappings ==
    {<<>>, <<<<<<"a">>, <<"b">>>>>>, <<<<<<"a">>, <<"b">>>>, <<<<"b">>, <<"a">>>>>>}

ThreadItems == {<<>>, <<<<"a">>>>, <<<<"b">>, <<"a">>>>, <<<<"a">>, <<"b">>>>}

Object(name, v) == [ref |-> name, val |-> v]

List(v) == [ref |-> "None", val |-> v]

\* The calls a thread can make when the heap holds the dict m and the
\* iterator it: its items are a list of its own or the shared iterator.
ThreadCalls(m, it) ==
    {[f |-> "multi_replace", a |-> <<s, Object("mapping", m)>>] : s \in ThreadTexts}
    \cup {[f |-> "remove_emoji", a |-> <<s>>] : s \in ThreadTexts}
    \cup {[f |-> g, a |-> <<s, Object("items", it)>>] :
             g \in {"contains_any", "contains_all"}, s \in ThreadTexts}
    \cup {[f |-> g, a |-> <<s, List(it)>>] :
             g \in {"contains_any", "contains_all"}, s \in ThreadTexts}

InitThreads ==
    \E m \in ThreadMappings, it \in ThreadItems :
        /\ heap = [EMOJI_PATTERN |-> EMOJI_PATTERN, mapping |-> m, items |-> it]
        /\ \E c \in [Threads -> ThreadCalls(m, it)] :
               /\ call = [t \in Threads |-> c[t].f]
               /\ args = [t \in Threads |-> c[t].a]
        /\ pc = [t \in Threads |-> "called"]
        /\ result = [t \in Threads |-> Return(<<>>)]
        /\ trace = [t \in Threads |-> <<>>]

ThreadReturn(t, r) ==
    /\ pc' = [pc EXCEPT ![t] = "done"]
    /\ result' = [result EXCEPT ![t] = r]

\* pattern = re.compile("|".join(map(re.escape, mapping.keys())))
ThreadCompile(t) ==
    /\ pc[t] = "called"
    /\ call[t] = "multi_replace"
    /\ pc' = [pc EXCEPT ![t] = "line 30"]
    /\ trace' = [trace EXCEPT ![t] = pattern_alternatives(heap.mapping)]
    /\ UNCHANGED <<call, args, result, heap>>

ThreadSubPop(t) ==
    /\ pc[t] = "line 30"
    /\ LET r == pattern_sub(args[t][1], trace[t], heap.mapping, 0, FALSE, <<>>, <<>>)
           used == {r.matches[n][2] : n \in 1..Len(r.matches)}
       IN /\ ThreadReturn(t, r.res)
          /\ heap' = [heap EXCEPT !.mapping = SelectSeq(@, LAMBDA e : e[1] \notin used)]
    /\ UNCHANGED <<call, args, trace>>

\* return pattern.sub(lambda m: mapping[m.group(0)], s)
ThreadSub(t) ==
    /\ pc[t] = "line 30"
    /\ ThreadReturn(t, pattern_sub(args[t][1], trace[t], heap.mapping, 0, FALSE,
                                   <<>>, <<>>).res)
    /\ UNCHANGED <<call, args, trace, heap>>

\* return EMOJI_PATTERN.sub('', s)
ThreadRemoveEmoji(t) ==
    /\ pc[t] = "called"
    /\ call[t] = "remove_emoji"
    /\ ThreadReturn(t, Return(emoji_sub(heap.EMOJI_PATTERN, args[t][1])))
    /\ UNCHANGED <<call, args, trace, heap>>

\* One turn of any(i in s for i in items) or all(...): the next item is
\* taken from the iterator (the shared one, or the one made for this call
\* from its list, which stands after the items already taken) and tested;
\* the deciding item or the end of the iterator ends the call.
ThreadNextItem(t) ==
    /\ pc[t] \in {"called", "iterating"}
    /\ call[t] \in {"contains_any", "contains_all"}
    /\ LET shared == args[t][2].ref = "items"
           rest == IF shared THEN heap.items
                   ELSE SubSeq(args[t][2].val, Len(trace[t]) + 1, Len(args[t][2].val))
           any == call[t] = "contains_any"
       IN IF rest = <<>>
          THEN /\ ThreadReturn(t, Return(~any))
               /\ UNCHANGED <<trace, heap>>
          ELSE /\ trace' = [trace EXCEPT ![t] = Append(@, rest[1])]
               /\ heap' = IF shared THEN [heap EXCEPT !.items = Tail(@)] ELSE heap
               /\ IF str_in(rest[1], args[t][1]) = any
                  THEN ThreadReturn(t, Return(any))
                  ELSE /\ pc' = [pc EXCEPT ![t] = "iterating"]
                       /\ UNCHANGED result
    /\ UNCHANGED <<call, args>>

NextThreads ==
    \E t \in Threads :
        \/ ThreadCompile(t)
        \/ ThreadSub(t)
        \/ ThreadRemoveEmoji(t)
        \/ ThreadNextItem(t)

SpecThreads == InitThreads /\ [][NextThreads]_vars

(***************************************************************************)
(* Helpers of the properties.                                              *)
(***************************************************************************)
Count(s, c) == Cardinality({i \in 1..Len(s) : s[i] = c})

\* The first index of c in s (s holds c).
FirstIndex(s, c) == CHOOSE i \in 1..Len(s) : s[i] = c /\ \A j \in 1..(i - 1) : s[j] # c

Stars(n) == [i \in 1..n |-> "*"]

\* needle occurs in s, as a property of s rather than as a scan.
Occurs(needle, s) ==
    \E p \in 0..Len(s) :
        /\ p + Len(needle) <= Len(s)
        /\ SubSeq(s, p + 1, p + Len(needle)) = needle

(***************************************************************************)
(* C6: mask_email raises, and returns no masked value, whenever its input  *)
(* does not hold exactly one '@': none at all, or two or more.             *)
(***************************************************************************)
C6_NotOneAtRaises ==
    (Done("mask_email") /\ Count(args[1], "@") # 1)
        => (result.exc = "ValueError" /\ result.val = <<>>)

C6_Witness ==
    /\ Done("mask_email")
    /\ Count(args[1], "@") >= 2
    /\ result.exc = "ValueError"

C8_MaskPhoneShape ==
    (Done("mask_phone"))
        => LET p == args[1]
               n == Len(p)
           IN /\ result.exc = "None"
              /\ Len(result.val) = n
              /\ n >= 4 => result.val = Stars(n - 4) \o SubSeq(p, n - 3, n)
              /\ n <= 4 => result.val = p

C8_Witness ==
    /\ Done("mask_phone")
    /\ Len(args[1]) = 5
    /\ result.val[1] = "*"
    /\ result.val[2] = args[1][2]

C8_WitnessShort ==
    /\ Done("mask_phone")
    /\ Len(args[1]) = 2
    /\ result.val = args[1]

C9_WitnessAll ==
    /\ Done("contains_all")
    /\ args[1] = <<"A", "a", "a">>
    /\ args[2] = <<<<"a", "a">>, <<"a", "A">>>>
    /\ result.val = FALSE

(***************************************************************************)
(* C1: for every input, slugify returns the empty string or a string that  *)
(* matches ^[a-z0-9]+(-[a-z0-9]+)*$: only lowercase ASCII letters, digits  *)
(* and single hyphens between them, no hyphen first or last.               *)
(***************************************************************************)
C1_SlugShape ==
    Done("slugify")
        => LET r == result.val
           IN /\ result.exc = "None"
              /\ \A n \in 1..Len(r) :
                    r[n] \in Range(LowerLetters) \cup Range(Digits) \cup {"-"}
              /\ r # <<>> => (r[1] # "-" /\ r[Len(r)] # "-")
              /\ \A n \in 1..(Len(r) - 1) : ~(r[n] = "-" /\ r[n + 1] = "-")

C1_Witness ==
    /\ Done("slugify")
    /\ args[1] = <<"B", "U+00E9", "1">>
    /\ result.val = <<"b", "e", "-", "1">>

C1_WitnessStripped ==
    /\ Done("slugify")
    /\ args[1] = <<"-", "B", " ">>
    /\ result.val = <<"b">>

\* s with each of the matches <<offset, key>> (left to right, from offset i
\* on) replaced by the key's value in the mapping, the rest copied.
RECURSIVE Splice(_, _, _, _)
Splice(s, mapping, matches, i) ==
    IF matches = <<>> THEN SubSeq(s, i + 1, Len(s))
    ELSE LET p == matches[1][1]
             key == matches[1][2]
         IN SubSeq(s, i + 1, p) \o dict_getitem(mapping, key).val
                \o Splice(s, mapping, Tail(matches), p + Len(key))

\* The place of a key in the mapping's iteration order.
KeyOrder(mapping, key) == CHOOSE n \in 1..Len(mapping) : mapping[n][1] = key

(***************************************************************************)
(* C3: with a non-empty mapping, multi_replace scans s left to right and   *)
(* replaces non-overlapping matches: at each position where keys match,    *)
(* the key replaced is the one earliest in the mapping's iteration order   *)
(* (not the longest), the scan resumes after the matched key, and what is  *)
(* not matched is copied unchanged.                                        *)
(***************************************************************************)
C3_EarliestKeyWins ==
    (Done("multi_replace") /\ args[2] # <<>>)
        => LET s == args[1]
               mapping == args[2]
           IN /\ result.exc = "None"
              /\ \A t \in 1..Len(trace) :
                    /\ StartsAt(s, trace[t][2], trace[t][1])
                    /\ \A n \in 1..Len(mapping) :
                          StartsAt(s, mapping[n][1], trace[t][1])
                              => KeyOrder(mapping, trace[t][2]) <= n
              /\ \A t \in 1..(Len(trace) - 1) :
                    trace[t + 1][1] >= trace[t][1] + Len(trace[t][2])
              /\ result.val = Splice(s, mapping, trace, 0)

(***************************************************************************)
(* C4: multi_replace never applies the mapping to text it has inserted:    *)
(* every match is a match in the original input, and the result is the     *)
(* input with exactly those matches replaced by their values, a value that *)
(* is or holds a key being left as it is ({'a':'b','b':'a'} turns 'a' into *)
(* 'b' and not back into 'a').                                             *)
(***************************************************************************)
C4_NoCascade ==
    (Done("multi_replace") /\ result.exc = "None")
        => LET s == args[1]
               mapping == args[2]
           IN /\ \A t \in 1..Len(trace) : StartsAt(s, trace[t][2], trace[t][1])
              /\ result.val = Splice(s, mapping, trace, 0)
              /\ (s = <<"a">> /\ mapping = <<<<<<"a">>, <<"b">>>>, <<<<"b">>, <<"a">>>>>>)
                    => result.val = <<"b">>

C4_Witness ==
    /\ Done("multi_replace")
    /\ args[1] = <<"a">>
    /\ args[2] = <<<<<<"a">>, <<"b">>>>, <<<<"b">>, <<"a">>>>>>
    /\ result.val = <<"b">>
    /\ trace = <<<<0, <<"a">>>>>>

C5_WitnessEmptyInput ==
    /\ Done("multi_replace")
    /\ args[2] = <<>>
    /\ args[1] = <<>>
    /\ result.exc = "KeyError"

(***************************************************************************)
(* C2: similarity is symmetric: similarity(a, b) == similarity(b, a) for   *)
(* all strings a and b, the score being that of the matcher run with a as  *)
(* its first and b as its second sequence.                                 *)
(***************************************************************************)
C2_Symmetric ==
    Done("similarity") => result.val = similarity(args[2], args[1])

C10_WitnessEmpty ==
    /\ Done("similarity")
    /\ args[1] = <<>>
    /\ args[2] = <<>>
    /\ result.val = 1000

C10_WitnessOneEmpty ==
    /\ Done("similarity")
    /\ args[1] = <<>>
    /\ Len(args[2]) = 2
    /\ result.val = 0

Separators == {"_", "-", " "}

NoSeparator(s) == \A n \in 1..Len(s) : s[n] \notin Separators

\* The tokens of s: s is cut at each separator.
Tokens(s) ==
    LET cuts == <<0>> \o SelectSeq([n \in 1..Len(s) |-> IF s[n] \in Separators THEN n ELSE 0],
                                   LAMBDA n : n # 0) \o <<Len(s) + 1>>
    IN [k \in 1..(Len(cuts) - 1) |-> SubSeq(s, cuts[k] + 1, cuts[k + 1] - 1)]

TitleCased(token) ==
    LET letters == {n \in 1..Len(token) : IsCased(token[n])}
    IN [n \in 1..Len(token) |->
           IF n \in letters /\ \A m \in letters : n <= m THEN char_upper(token[n])
           ELSE IF \E m \in letters : m < n THEN char_lower(token[n])
           ELSE token[n]]

RECURSIVE Concat(_)
Concat(ss) == IF ss = <<>> THEN <<>> ELSE ss[1] \o Concat(Tail(ss))

(***************************************************************************)
(* C12: to_camel cuts its input into tokens at the separators, returns the *)
(* first token in lowercase followed, with nothing between them, by every  *)
(* later token title-cased; an input without a separator is one token and  *)
(* comes back in lowercase.                                                *)
(***************************************************************************)
C12_CamelTokens ==
    Done("to_camel")
        => LET tokens == Tokens(args[1])
           IN /\ result.val = str_lower(tokens[1])
                              \o Concat([k \in 1..(Len(tokens) - 1) |-> TitleCased(tokens[k + 1])])
              /\ NoSeparator(args[1]) => result.val = str_lower(args[1])

(***************************************************************************)
(* C13: the tokenizer of to_camel and to_pascal cuts at '_', '-' and the   *)
(* space and nowhere else: every other character, a tab or a newline       *)
(* included, is found in the output, so that the output is, but for the    *)
(* case of its letters, the input without its separators.                  *)
(***************************************************************************)
C13_OnlyThreeBoundaries ==
    (Done("to_camel") \/ Done("to_pascal"))
        => str_lower(result.val)
           = str_lower(SelectSeq(args[1], LAMBDA c : c \notin Separators))

(***************************************************************************)
(* C14: title-casing makes a capital of the first letter of a token only   *)
(* and puts every character after it in lowercase, digits or punctuation   *)
(* between the letters or not.  It is read off the calls whose input is    *)
(* one token: to_pascal of a token, and to_camel of a separator and a      *)
(* token, return the token title-cased.                                    *)
(***************************************************************************)
C14_TitleFirstLetterOnly ==
    LET OneToken(s) == \A n \in 1..Len(s) : ~InClass("[_\\-\\s]", s[n])
    IN /\ (Done("to_pascal") /\ OneToken(args[1]))
              => result.val = TitleCased(args[1])
       /\ (Done("to_camel") /\ args[1] # <<>> /\ args[1][1] \in Separators
              /\ OneToken(Tail(args[1])))
              => result.val = TitleCased(Tail(args[1]))

(***************************************************************************)
(* C15: a leading separator makes to_camel behave like to_pascal: for a    *)
(* separator c and a string s, to_camel(c + s) is to_pascal(s).            *)
(***************************************************************************)
C15_LeadingSeparatorIsPascal ==
    (Done("to_camel") /\ args[1] # <<>> /\ args[1][1] \in Separators)
        => result.val = to_pascal(Tail(args[1]))

C15_Witness ==
    /\ Done("to_camel")
    /\ args[1] = <<"_", "a", "-", "a">>
    /\ result.val = <<"A", "A">>

(***************************************************************************)
(* C16: to_snake and to_kebab pass a lone separator through unchanged:     *)
(* for the one-character inputs '_', '-' and ' ', the result is the input. *)
(***************************************************************************)
C16_LoneSeparatorUnchanged ==
    ((Done("to_snake") \/ Done("to_kebab")) /\ Len(args[1]) = 1
        /\ args[1][1] \in Separators)
        => result.val = args[1]

(***************************************************************************)
(* C16, amended: of the lone separators to_snake passes '_' and '-'        *)
(* through and turns the space into '_'; to_kebab returns '-' for each of  *)
(* the three.                                                              *)
(***************************************************************************)
C16_LoneSeparator ==
    /\ (Done("to_snake") /\ Len(args[1]) = 1 /\ args[1][1] \in Separators)
           => result.val = IF args[1] = <<" ">> THEN <<"_">> ELSE args[1]
    /\ (Done("to_kebab") /\ Len(args[1]) = 1 /\ args[1][1] \in Separators)
           => result.val = <<"-">>

C16_Witness ==
    /\ Done("to_snake")
    /\ args[1] = <<" ">>
    /\ result.val = <<"_">>

C16_WitnessKebab ==
    /\ Done("to_kebab")
    /\ args[1] = <<"_">>
    /\ result.val = <<"-">>

(***************************************************************************)
(* C17: for a string made of separators only ('_', '-' and spaces, any     *)
(* number of them in any order), to_camel and to_pascal return the empty   *)
(* string.                                                                 *)
(***************************************************************************)
C17_OnlySeparatorsGiveEmpty ==
    ((Done("to_camel") \/ Done("to_pascal"))
        /\ \A n \in 1..Len(args[1]) : args[1][n] \in Separators)
        => result.val = <<>>

C17_Witness ==
    /\ Done("to_pascal")
    /\ args[1] = <<"_", "-", " ", "_">>
    /\ result.val = <<>>

C17_WitnessCamel ==
    /\ Done("to_camel")
    /\ args[1] = <<" ", "-">>
    /\ result.val = <<>>

(***************************************************************************)
(* C18: to_kebab(s) is to_snake(s) with every '_' replaced by '-': the two *)
(* have the same length, a hyphen stands wherever to_snake(s) has an       *)
(* underscore and every other character is the same; so the result of      *)
(* to_kebab holds no underscore.                                           *)
(***************************************************************************)
C18_KebabIsSnakeWithHyphens ==
    Done("to_kebab")
        => LET snake == to_snake(args[1])
               kebab == result.val
           IN /\ Len(kebab) = Len(snake)
              /\ \A n \in 1..Len(snake) :
                    /\ snake[n] = "_" => kebab[n] = "-"
                    /\ snake[n] # "_" => kebab[n] = snake[n]
              /\ Count(kebab, "_") = 0

C18_Witness ==
    /\ Done("to_kebab")
    /\ args[1] = <<"a", "A", "_", "a">>
    /\ result.val = <<"a", "-", "a", "-", "a">>

(***************************************************************************)
(* C19: clean_text applies its five stages in this order, each on the      *)
(* output of the one before: decode the character references, strip the    *)
(* tags, strip the emoji, decompose (NFKD), normalize the white space.  So *)
(* a tag spelled with references, such as '&lt;p&gt;', is decoded and then *)
(* removed as a tag, and the result has no white space first or last and   *)
(* no two white-space characters in a row.                                 *)
(***************************************************************************)
C19_PipelineOrder ==
    Done("clean_text")
        => LET decoded == html_unescape(args[1])
               untagged == remove_html(decoded)
               plain == remove_emoji(untagged)
               decomposed == normalize_unicode(plain)
               r == result.val
           IN /\ r = normalize_spaces(decomposed)
              /\ \A c \in {"a", "B", "1", "-"} :
                    args[1] = <<"&", "l", "t", ";", c, "&", "g", "t", ";">> => r = <<>>
              /\ r # <<>> => (~IsSpace(r[1]) /\ ~IsSpace(r[Len(r)]))
              /\ \A n \in 1..(Len(r) - 1) : ~(IsSpace(r[n]) /\ IsSpace(r[n + 1]))

C19_Witness ==
    /\ Done("clean_text")
    /\ args[1] = <<"&", "l", "t", ";", "a", "&", "g", "t", ";">>
    /\ result.val = <<>>

C19_WitnessSpaces ==
    /\ Done("clean_text")
    /\ args[1] = <<"U+00A0", "a", "\n">>
    /\ result.val = <<"a">>

(***************************************************************************)
(* C20: the string that clean_text returns has no tag left in it: no '<'   *)
(* that is followed, later in the string, by a '>'.                        *)
(***************************************************************************)
C20_NoTagLeft ==
    Done("clean_text")
        => LET r == result.val
           IN ~ \E i, j \in 1..Len(r) : i < j /\ r[i] = "<" /\ r[j] = ">"

(***************************************************************************)
(* The text without its spans, as the documentation tells it: from the     *)
(* left, a '<' with a '>' somewhere after it goes with everything up to    *)
(* the nearest such '>'; any other character stays.                        *)
(***************************************************************************)
RECURSIVE WithoutSpans(_, _)
WithoutSpans(s, i) ==
    IF i > Len(s) THEN <<>>
    ELSE LET closes == {j \in (i + 1)..Len(s) : s[j] = ">"}
         IN IF s[i] = "<" /\ closes # {}
            THEN WithoutSpans(s, (CHOOSE j \in closes : \A k \in closes : j <= k) + 1)
            ELSE <<s[i]>> \o WithoutSpans(s, i + 1)

(***************************************************************************)
(* C21: remove_html deletes every shortest span from a '<' to the next '>' *)
(* after it, whatever lies between the two, from left to right and without *)
(* overlap; every other character is kept, in order.                       *)
(***************************************************************************)
C21_ShortestSpansDeleted ==
    Done("remove_html") => result.val = WithoutSpans(args[1], 1)

(***************************************************************************)
(* C22: slugify is idempotent: the slug of a slug is that slug.            *)
(***************************************************************************)
C22_SlugifyIdempotent ==
    Done("slugify") => slugify(result.val) = result.val

C22_Witness ==
    /\ Done("slugify")
    /\ args[1] = <<"B", " ", "1">>
    /\ result.val = <<"b", "-", "1">>
    /\ slugify(result.val) = <<"b", "-", "1">>

(***************************************************************************)
(* C25: contains_any and contains_all short-circuit over the items in      *)
(* iteration order.  The items taken from the iterable are its first ones, *)
(* up to and including the deciding one: for contains_any the first item   *)
(* that occurs in s, for contains_all the first that does not; the items   *)
(* after it are left unconsumed.  With no deciding item, all are taken.    *)
(***************************************************************************)
C25_ShortCircuit ==
    LET s == args[1]
        items == args[2]
        hits == {n \in 1..Len(items) : Occurs(items[n], s)}
        misses == {n \in 1..Len(items) : ~Occurs(items[n], s)}
        First(S) == CHOOSE n \in S : \A m \in S : n <= m
    IN /\ Done("contains_any")
           => trace = SubSeq(items, 1, IF hits = {} THEN Len(items) ELSE First(hits))
       /\ Done("contains_all")
           => trace = SubSeq(items, 1, IF misses = {} THEN Len(items) ELSE First(misses))

C25_Witness ==
    /\ Done("contains_any")
    /\ args[1] = <<"a">>
    /\ args[2] = <<<<"a">>, <<"A">>>>
    /\ trace = <<<<"a">>>>

C25_WitnessAll ==
    /\ Done("contains_all")
    /\ args[1] = <<"a">>
    /\ args[2] = <<<<"A">>, <<"a">>>>
    /\ trace = <<<<"A">>>>

(***************************************************************************)
(* The same dict in another iteration order: the entries of a mapping in   *)
(* every order.  One key is a prefix of another when the other starts with *)
(* it (the empty key is a prefix of every key).                            *)
(***************************************************************************)
Reorderings(mapping) ==
    LET n == Len(mapping)
        orders == {f \in [1..n -> 1..n] : \A x, y \in 1..n : f[x] = f[y] => x = y}
    IN {[k \in 1..n |-> mapping[f[k]]] : f \in orders}

PrefixFree(mapping) ==
    \A x, y \in 1..Len(mapping) :
        (x # y) => ~StartsAt(mapping[y][1], mapping[x][1], 0)

C27_EmptyKeyIgnored ==
    (Done("multi_replace")
        /\ (\E n \in 1..Len(args[2]) : args[2][n][1] = <<>>)
        /\ (\E m \in 1..Len(args[2]) : args[2][m][1] # <<>>))
        => result = multi_replace(args[1],
                                  SelectSeq(args[2], LAMBDA e : e[1] # <<>>)).res

(***************************************************************************)
(* C28: for words of ASCII letters separated by single spaces, each word   *)
(* all in lowercase or one capital followed by small letters, to_snake     *)
(* returns the words in lowercase joined by one underscore per space: the  *)
(* result never holds two underscores in a row.                            *)
(***************************************************************************)
C28_OneUnderscorePerSpace ==
    LET s == args[1]
        Letter(c) == IsCased(c)
        Words == /\ s # <<>>
                 /\ \A n \in 1..Len(s) : Letter(s[n]) \/ s[n] = " "
                 /\ s[1] # " " /\ s[Len(s)] # " "
                 /\ \A n \in 1..(Len(s) - 1) : ~(s[n] = " " /\ s[n + 1] = " ")
                 /\ \A n \in 2..Len(s) :
                       InClass("[A-Z]", s[n]) => s[n - 1] = " "
    IN (Done("to_snake") /\ Words)
           => /\ result.val = [n \in 1..Len(s) |->
                                  IF s[n] = " " THEN "_" ELSE char_lower(s[n])]
              /\ \A n \in 1..(Len(result.val) - 1) :
                    ~(result.val[n] = "_" /\ result.val[n + 1] = "_")

(***************************************************************************)
(* C29: to_snake is idempotent: its result holds no ASCII capital and no   *)
(* space, so that neither substitution and no replacement applies to it,   *)
(* and to_snake of the result is the result.                               *)
(***************************************************************************)
C29_ToSnakeIdempotent ==
    Done("to_snake")
        => /\ \A n \in 1..Len(result.val) :
                 ~InClass("[A-Z]", result.val[n]) /\ result.val[n] # " "
           /\ to_snake(result.val) = result.val

C29_Witness ==
    /\ Done("to_snake")
    /\ args[1] = <<"a", "A", "a", " ">>
    /\ result.val = <<"a", "_", "a", "a", "_">>
    /\ to_snake(result.val) = result.val

(***************************************************************************)
(* C30: remove_html is idempotent: deleting the tag spans never brings a   *)
(* '<' and a '>' together into a span that a second pass would delete.     *)
(***************************************************************************)
C30_RemoveHtmlIdempotent ==
    Done("remove_html") => remove_html(result.val) = result.val

C30_Witness ==
    /\ Done("remove_html")
    /\ args[1] = <<"<", "a", ">", "<", ">">>
    /\ result.val = <<>>

C30_WitnessLeftover ==
    /\ Done("remove_html")
    /\ args[1] = <<"<", "<", "a", ">", ">">>
    /\ result.val = <<">">>
    /\ remove_html(result.val) = <<">">>

(***************************************************************************)
(* C24: apart from mask_email on a malformed input and multi_replace with  *)
(* an empty mapping, no function raises: every other call returns a        *)
(* result, for every string given, the empty string included.              *)
(***************************************************************************)
C24_NoOtherRaise ==
    (pc = "done" /\ call # "mask_email" /\ ~(call = "multi_replace" /\ args[2] = <<>>))
        => result.exc = "None"

C24_Witness ==
    /\ Done("multi_replace")
    /\ args[1] = <<"a", "b">>
    /\ args[2] = <<<<<<"b">>, <<>>>>>>
    /\ result = Return(<<"a">>)

C24_WitnessEmpty ==
    /\ Done("mask_phone")
    /\ args[1] = <<>>
    /\ result = Return(<<>>)

(***************************************************************************)
(* What a call returns when it runs alone, on its arguments as they were   *)
(* when it was made.                                                       *)
(***************************************************************************)
Alone(f, a) ==
    CASE f = "multi_replace" -> multi_replace(a[1], a[2].val).res
      [] f = "remove_emoji" -> Return(remove_emoji(a[1]))
      [] f = "contains_any" -> Return(contains_any(a[1], a[2].val).val)
      [] f = "contains_all" -> Return(contains_all(a[1], a[2].val).val)

\* The thread was given the shared one-shot iterator as its items.
GivenIterator(t) == Len(args[t]) = 2 /\ args[t][2].ref = "items"

(***************************************************************************)
(* C23: the library keeps no shared mutable state.  In every interleaving  *)
(* of concurrent calls, each call returns what it returns alone, and no    *)
(* call modifies its arguments (the mapping of multi_replace, the items    *)
(* of contains_any and contains_all) or the module-level EMOJI_PATTERN.    *)
(***************************************************************************)
C23_NoSharedState ==
    /\ \A t \in Threads : pc[t] = "done" => result[t] = Alone(call[t], args[t])
    /\ heap.EMOJI_PATTERN = EMOJI_PATTERN
    /\ \A t \in Threads :
           (Len(args[t]) = 2 /\ args[t][2].ref # "None")
               => heap[args[t][2].ref] = args[t][2].val

(***************************************************************************)
(* C23, amended: the library keeps no state of its own, and the one        *)
(* argument that a call changes is a one-shot iterator given as items,     *)
(* which contains_any and contains_all consume from the front.  In every   *)
(* interleaving the EMOJI_PATTERN and the mapping stay as they were, the   *)
(* iterator only loses items from its front, and each call returns what it *)
(* returns alone unless it shares the iterator with another call.          *)
(***************************************************************************)
C23_OnlyIteratorConsumed ==
    /\ heap.EMOJI_PATTERN = EMOJI_PATTERN
    /\ \A t \in Threads :
           /\ call[t] = "multi_replace" => heap.mapping = args[t][2].val
           /\ GivenIterator(t)
                  => \E n \in 0..Len(args[t][2].val) :
                         heap.items = SubSeq(args[t][2].val, n + 1, Len(args[t][2].val))
           /\ (pc[t] = "done"
                  /\ ~(GivenIterator(t) /\ \E u \in Threads \ {t} : GivenIterator(u)))
                  => result[t] = Alone(call[t], args[t])

C23_Witness ==
    /\ \A t \in Threads : pc[t] = "done"
    /\ call = [t \in Threads |-> IF t = "t1" THEN "multi_replace" ELSE "contains_any"]
    /\ args["t1"] = <<<<"a">>, Object("mapping", <<<<<<"a">>, <<"b">>>>>>)>>
    /\ args["t2"] = <<<<"a">>, Object("items", <<<<"b">>, <<"a">>>>)>>
    /\ result["t1"] = Return(<<"b">>)
    /\ result["t2"] = Return(TRUE)
    /\ heap.items = <<>>

C23_WitnessShared ==
    /\ \A t \in Threads : pc[t] = "done" /\ call[t] = "multi_replace"
    /\ \A t \in Threads : result[t] = Return(<<"b">>)
    /\ heap.mapping = <<<<<<"a">>, <<"b">>>>, <<<<"b">>, <<"a">>>>>>

====
